---- MODULE Spec2Model ----
(***************************************************************************)
(* Model of the indexify data model (server-next/data_model/src/lib.rs):   *)
(* TaskAnalytics counters, the Task lifecycle and its keys, the builders,  *)
(* and the StateChangeId key encoding.                                     *)
(*                                                                         *)
(* Strings and byte slices are sequences of byte values (ASCII codes).     *)
(* Each component has a specification of its own (SpecAnalytics, SpecTask, *)
(* SpecAlloc, SpecParse, SpecBuilders, SpecStateChange); a specification   *)
(* leaves the other components' variables at their idle values.            *)
(***************************************************************************)
EXTENDS Integers, Sequences, FiniteSets, TLC

VARIABLES
    ta,              \* the TaskAnalytics value (pending/successful/failed)
    calls,           \* history: number of pending()/success()/fail() calls made
    unmatched,       \* history: some success()/fail() ran with pending_tasks = 0
    overflow_checks, \* build profile: TRUE = overflow checks on (debug), FALSE = wrapping (release)
    panicked,        \* the process has aborted in a panic
    tasks,           \* SpecTask: slot -> Option<Task>, the Tasks created so far
    executor_id,     \* SpecAlloc: the ExecutorId allocations are made for
    alloc_tasks,     \* SpecAlloc: the two Tasks being allocated
    alloc_keys,      \* SpecAlloc: i -> Option<String>, make_allocation_key's result
    alloc_parsed,    \* SpecAlloc: i -> Option<Result>, key_from_executor_key of alloc_keys[i]
    parse_in,        \* SpecParse: the byte slice handed to key_from_executor_key
    parse_out,       \* SpecParse: Option<Result>, what it returned
    builder,         \* SpecBuilders: the builder being filled, [kind, fields]
    built,           \* SpecBuilders: Option<[kind, from, result]>, the last build() call
    sc_ids,          \* SpecStateChange: i -> StateChangeId
    sc_keys,         \* SpecStateChange: i -> Option<[u8; 8]>, to_key's result
    sc_back          \* SpecStateChange: i -> Option<StateChangeId>, from_key of sc_keys[i]

notAnalyticsVars ==
    <<tasks, executor_id, alloc_tasks, alloc_keys, alloc_parsed, parse_in, parse_out,
      builder, built, sc_ids, sc_keys, sc_back>>

notTaskVars ==
    <<ta, calls, unmatched, overflow_checks, executor_id, alloc_tasks, alloc_keys,
      alloc_parsed, parse_in, parse_out, builder, built, sc_ids, sc_keys, sc_back>>

notAllocVars ==
    <<ta, calls, unmatched, overflow_checks, tasks, parse_in, parse_out, builder,
      built, sc_ids, sc_keys, sc_back>>

notParseVars ==
    <<ta, calls, unmatched, overflow_checks, tasks, executor_id, alloc_tasks,
      alloc_keys, alloc_parsed, builder, built, sc_ids, sc_keys, sc_back>>

notBuilderVars ==
    <<ta, calls, unmatched, overflow_checks, tasks, executor_id, alloc_tasks,
      alloc_keys, alloc_parsed, parse_in, parse_out, sc_ids, sc_keys, sc_back>>

notStateChangeVars ==
    <<ta, calls, unmatched, overflow_checks, tasks, executor_id, alloc_tasks,
      alloc_keys, alloc_parsed, parse_in, parse_out, builder, built>>

vars == <<ta, calls, unmatched, overflow_checks, panicked, tasks, executor_id,
          alloc_tasks, alloc_keys, alloc_parsed, parse_in, parse_out,
          builder, built, sc_ids, sc_keys, sc_back>>

\* Option<T>: None is the empty sequence, Some(x) the one-element sequence.
None == <<>>

Some(x) == <<x>>

IsSome(o) == o # <<>>

Unwrap(o) == o[1]

\* anyhow::Result<T>: Ok(value) or Err(message); a message is its sequence of words.
Ok(v) == [ok |-> TRUE, value |-> <<v>>, error |-> <<>>]

Err(e) == [ok |-> FALSE, value |-> <<>>, error |-> e]

(***************************************************************************)
(* Bounds                                                                  *)
(***************************************************************************)
\* Width of the TaskAnalytics counters in the model (u64 in the source).
CounterBits == 3

\* Largest counter value (u64::MAX at the model's width).
CounterMax == 2^CounterBits - 1

\* Calls explored per behaviour: enough to drive a counter past CounterMax.
MaxCalls == 2^CounterBits + 1

\* Number of Task slots of SpecTask.
MaxTasks == 2

\* Longest byte slice handed to key_from_executor_key in SpecParse.
MaxKeyLen == 4

(***************************************************************************)
(* TaskAnalytics                                                           *)
(***************************************************************************)
\* #[derive(Default)]: all three counters are zero.
TaskAnalyticsDefault ==
    [pending_tasks |-> 0, successful_tasks |-> 0, failed_tasks |-> 0]

\* `x += 1` on a u64 when it does not panic: wraps at the width.
WrappingInc(x) == (x + 1) % (CounterMax + 1)

\* `x += 1` overflows exactly at the maximum.
IncOverflows(x) == x = CounterMax

NoCalls == [pending |-> 0, success |-> 0, fail |-> 0]

TotalCalls == calls.pending + calls.success + calls.fail

\* Variant: the decrement is left out.
DecrementPending_Skipped(p) == p

\* The guarded decrement of success()/fail(): `if pending_tasks > 0 { pending_tasks -= 1 }`.
DecrementPending(p) == IF p > 0 THEN p - 1 ELSE p

\* pub fn pending(&mut self)
TaskAnalytics_pending ==
    /\ ~panicked
    /\ TotalCalls < MaxCalls
    /\ calls' = [calls EXCEPT !.pending = @ + 1]
    /\ IF IncOverflows(ta.pending_tasks) /\ overflow_checks
         THEN /\ panicked' = TRUE
              /\ ta' = ta
         ELSE /\ panicked' = panicked
              /\ ta' = [ta EXCEPT !.pending_tasks = WrappingInc(@)]
    /\ UNCHANGED <<unmatched, overflow_checks>>
    /\ UNCHANGED notAnalyticsVars

\* pub fn success(&mut self)
TaskAnalytics_success ==
    /\ ~panicked
    /\ TotalCalls < MaxCalls
    /\ calls' = [calls EXCEPT !.success = @ + 1]
    /\ unmatched' = (unmatched \/ ta.pending_tasks = 0)
    /\ IF IncOverflows(ta.successful_tasks) /\ overflow_checks
         THEN /\ panicked' = TRUE
              /\ ta' = ta
         ELSE /\ panicked' = panicked
              /\ ta' = [ta EXCEPT !.successful_tasks = WrappingInc(@),
                                  !.pending_tasks = DecrementPending(@)]
    /\ UNCHANGED overflow_checks
    /\ UNCHANGED notAnalyticsVars

\* pub fn fail(&mut self)
TaskAnalytics_fail ==
    /\ ~panicked
    /\ TotalCalls < MaxCalls
    /\ calls' = [calls EXCEPT !.fail = @ + 1]
    /\ unmatched' = (unmatched \/ ta.pending_tasks = 0)
    /\ IF IncOverflows(ta.failed_tasks) /\ overflow_checks
         THEN /\ panicked' = TRUE
              /\ ta' = ta
         ELSE /\ panicked' = panicked
              /\ ta' = [ta EXCEPT !.failed_tasks = WrappingInc(@),
                                  !.pending_tasks = DecrementPending(@)]
    /\ UNCHANGED overflow_checks
    /\ UNCHANGED notAnalyticsVars

(***************************************************************************)
(* Bytes, formatting and hashing                                           *)
(***************************************************************************)
\* b'_', the delimiter of every composite key.
Underscore == 95

\* Nanoseconds per second, the factor in make_allocation_key.
NanosPerSec == 1000000000

\* Width of the hasher's output in the model (64 bits in the source).
HashBits == 8

HashMod == 2^HashBits

\* The terminator byte str's Hash impl writes after the string's bytes.
StrHashTerminator == 255

RECURSIVE Concat(_)
\* The concatenation of a sequence of byte strings.
Concat(parts) ==
    IF parts = <<>> THEN <<>> ELSE Head(parts) \o Concat(Tail(parts))

RECURSIVE JoinUnderscore(_)
\* format!("{}_{}_..."): the parts joined by '_'.
JoinUnderscore(parts) ==
    IF Len(parts) <= 1 THEN Concat(parts)
    ELSE Head(parts) \o <<Underscore>> \o JoinUnderscore(Tail(parts))

RECURSIVE ToDecimal(_)
\* Display of an unsigned integer: decimal digits, no padding.
ToDecimal(n) ==
    IF n < 10 THEN <<48 + n>>
    ELSE Append(ToDecimal(n \div 10), 48 + (n % 10))

HexDigit(d) == IF d < 10 THEN 48 + d ELSE 87 + d

RECURSIVE ToHex(_)
\* format!("{:x}", n): lower-case hexadecimal digits, no padding.
ToHex(n) ==
    IF n < 16 THEN <<HexDigit(n)>>
    ELSE Append(ToHex(n \div 16), HexDigit(n % 16))

RECURSIVE HasherWrite(_, _)
\* Hasher::write: the hasher's state after absorbing the bytes, in order.
HasherWrite(h, bytes) ==
    IF bytes = <<>> THEN h
    ELSE HasherWrite((h * 31 + Head(bytes) + 1) % HashMod, Tail(bytes))

\* <str as Hash>::hash: the string's bytes, then the terminator.
HashStr(h, str) == HasherWrite(h, Append(str, StrHashTerminator))

RECURSIVE HashAll(_, _)
\* s1.hash(&mut hasher); s2.hash(&mut hasher); ... from hasher state h.
HashAll(h, strs) ==
    IF strs = <<>> THEN h ELSE HashAll(HashStr(h, Head(strs)), Tail(strs))

\* DefaultHasher::new(), the hashes of strs in order, finish().
DefaultHash(strs) == HashAll(0, strs)

(***************************************************************************)
(* Task                                                                    *)
(***************************************************************************)
TaskOutcome == {"Unknown", "Success", "Failure"}

\* fn default_creation_time: the Unix epoch (time is nanoseconds since it).
default_creation_time == 0

\* pub fn terminal_state(&self) -> bool
terminal_state_SuccessOnly(t) == t.outcome = "Success"
terminal_state(t) == t.outcome # "Unknown"

\* pub fn key(&self) -> String
Task_key(t) ==
    JoinUnderscore(<<t.namespace, t.compute_graph_name, t.invocation_id,
                     t.compute_fn_name, t.id>>)

\* SystemTime::duration_since(UNIX_EPOCH): Err for a time before the epoch.
DurationSinceEpoch(time) == IF time >= 0 THEN Ok(time) ELSE Err(<<"SystemTimeError">>)

\* make_allocation_key's `.unwrap()` panics exactly when duration_since fails.
make_allocation_key_panics(t) == ~DurationSinceEpoch(t.creation_time).ok

\* pub fn make_allocation_key(&self, executor_id: &ExecutorId) -> String
make_allocation_key(t, executor) ==
    LET duration == Unwrap(DurationSinceEpoch(t.creation_time).value)
        secs == duration \div NanosPerSec
        subsec == duration % NanosPerSec
        nsecs == secs * NanosPerSec + subsec
    IN  JoinUnderscore(<<executor, ToDecimal(nsecs), Task_key(t)>>)

\* iter().position(|&x| x == b): the 0-based index of the first b, or None.
Position(bytes, b) ==
    LET hits == {i \in 1..Len(bytes) : bytes[i] = b}
    IN  IF hits = {} THEN None
        ELSE Some((CHOOSE i \in hits : \A j \in hits : i <= j) - 1)

\* &bytes[from..]: the slice from the 0-based index to the end.
SliceFrom(bytes, from) == SubSeq(bytes, from + 1, Len(bytes))

InvalidExecutorKey == <<"invalid", "executor", "key">>

\* Variant: searches the second delimiter from pos_1 itself.
key_from_executor_key_OneDelim(executor_key) ==
    LET pos_1 == Position(executor_key, Underscore)
    IN  IF ~IsSome(pos_1) THEN Err(InvalidExecutorKey)
        ELSE LET pos_2 == Position(SliceFrom(executor_key, Unwrap(pos_1)), Underscore)
             IN  IF ~IsSome(pos_2) THEN Err(InvalidExecutorKey)
                 ELSE Ok(SliceFrom(executor_key, Unwrap(pos_1) + Unwrap(pos_2) + 1))

\* Variant: the returned slice starts at the second delimiter, not after it.
key_from_executor_key_KeepDelim(executor_key) ==
    LET pos_1 == Position(executor_key, Underscore)
    IN  IF ~IsSome(pos_1) THEN Err(InvalidExecutorKey)
        ELSE LET pos_2 == Position(SliceFrom(executor_key, Unwrap(pos_1) + 1), Underscore)
             IN  IF ~IsSome(pos_2) THEN Err(InvalidExecutorKey)
                 ELSE Ok(SliceFrom(executor_key, Unwrap(pos_1) + 1 + Unwrap(pos_2)))

\* pub fn key_from_executor_key(executor_key: &[u8]) -> Result<Vec<u8>>
key_from_executor_key(executor_key) ==
    LET pos_1 == Position(executor_key, Underscore)
    IN  IF ~IsSome(pos_1) THEN Err(InvalidExecutorKey)
        ELSE LET pos_2 == Position(SliceFrom(executor_key, Unwrap(pos_1) + 1), Underscore)
             IN  IF ~IsSome(pos_2) THEN Err(InvalidExecutorKey)
                 ELSE Ok(SliceFrom(executor_key, Unwrap(pos_1) + 1 + Unwrap(pos_2) + 1))

(***************************************************************************)
(* Input domains                                                           *)
(***************************************************************************)
\* "n"
Namespaces == {<<110>>}

\* "g"
GraphNames == {<<103>>}

\* "f", "h_x": node names, the second with an embedded '_'
FnNames == {<<102>>, <<104, 95, 120>>}

\* "i", "j"
InputIds == {<<105>>, <<106>>}

\* "v"
InvocationIds == {<<118>>}

\* "e", "e1", "e_2": executor ids, the last with an embedded '_'
ExecutorIds == {<<101>>, <<101, 49>>, <<101, 95, 50>>}

\* SystemTime values, in nanoseconds since the Unix epoch (negative: before it).
ClockTimes == {-1, default_creation_time, 9, 10, NanosPerSec - 1, NanosPerSec}

\* The values SystemTime::now() takes in SpecTask.
TaskClockTimes == {0, 10, NanosPerSec}

Payloads == {[path |-> <<112>>, size |-> 1, sha256_hash |-> <<115>>]}

OptionOf(S) == {None} \cup {Some(x) : x \in S}

(***************************************************************************)
(* Builders                                                                *)
(***************************************************************************)
\* TaskBuilder::default(): #[derive(Builder)] gives one Option per field of Task.
TaskBuilderDefault ==
    [id |-> None, namespace |-> None, compute_fn_name |-> None,
     compute_graph_name |-> None, invocation_id |-> None, input_data_id |-> None,
     outcome |-> None, creation_time |-> None]

\* Variant: the creation time is hashed into the id as well.
TaskBuilder_build_HashesTime(b, now) ==
    IF ~IsSome(b.namespace) THEN Err(<<"namespace", "is", "not", "present">>)
    ELSE IF ~IsSome(b.compute_graph_name)
      THEN Err(<<"compute", "graph", "name", "is", "not", "present">>)
    ELSE IF ~IsSome(b.compute_fn_name)
      THEN Err(<<"compute", "fn", "name", "is", "not", "present">>)
    ELSE IF ~IsSome(b.input_data_id)
      THEN Err(<<"input", "data", "object", "id", "is", "not", "present">>)
    ELSE IF ~IsSome(b.invocation_id)
      THEN Err(<<"ingestion", "data", "object", "id", "is", "not", "present">>)
    ELSE Ok([id |-> ToHex(DefaultHash(<<Unwrap(b.compute_graph_name),
                                        Unwrap(b.compute_fn_name),
                                        Unwrap(b.input_data_id),
                                        Unwrap(b.invocation_id),
                                        Unwrap(b.namespace),
                                        ToDecimal(now + 1)>>)),
             namespace |-> Unwrap(b.namespace),
             compute_fn_name |-> Unwrap(b.compute_fn_name),
             compute_graph_name |-> Unwrap(b.compute_graph_name),
             invocation_id |-> Unwrap(b.invocation_id),
             input_data_id |-> Unwrap(b.input_data_id),
             outcome |-> "Unknown",
             creation_time |-> now])

\* impl TaskBuilder { pub fn build(&self) -> Result<Task> }, with SystemTime::now() = now
TaskBuilder_build(b, now) ==
    IF ~IsSome(b.namespace) THEN Err(<<"namespace", "is", "not", "present">>)
    ELSE IF ~IsSome(b.compute_graph_name)
      THEN Err(<<"compute", "graph", "name", "is", "not", "present">>)
    ELSE IF ~IsSome(b.compute_fn_name)
      THEN Err(<<"compute", "fn", "name", "is", "not", "present">>)
    ELSE IF ~IsSome(b.input_data_id)
      THEN Err(<<"input", "data", "object", "id", "is", "not", "present">>)
    ELSE IF ~IsSome(b.invocation_id)
      THEN Err(<<"ingestion", "data", "object", "id", "is", "not", "present">>)
    ELSE Ok([id |-> ToHex(DefaultHash(<<Unwrap(b.compute_graph_name),
                                        Unwrap(b.compute_fn_name),
                                        Unwrap(b.input_data_id),
                                        Unwrap(b.invocation_id),
                                        Unwrap(b.namespace)>>)),
             namespace |-> Unwrap(b.namespace),
             compute_fn_name |-> Unwrap(b.compute_fn_name),
             compute_graph_name |-> Unwrap(b.compute_graph_name),
             invocation_id |-> Unwrap(b.invocation_id),
             input_data_id |-> Unwrap(b.input_data_id),
             outcome |-> "Unknown",
             creation_time |-> now])

\* DataObjectBuilder::default()
DataObjectBuilderDefault ==
    [id |-> None, namespace |-> None, compute_graph_name |-> None,
     compute_fn_name |-> None, payload |-> None]

\* impl DataObjectBuilder { pub fn build(&mut self) -> Result<DataObject> }
DataObjectBuilder_build(b) ==
    IF ~IsSome(b.namespace) THEN Err(<<"namespace", "is", "required">>)
    ELSE IF ~IsSome(b.compute_graph_name)
      THEN Err(<<"compute", "graph", "name", "is", "required">>)
    ELSE IF ~IsSome(b.compute_fn_name)
      THEN Err(<<"compute", "fn", "name", "is", "required">>)
    ELSE IF ~IsSome(b.payload) THEN Err(<<"payload", "is", "required">>)
    ELSE Ok([id |-> ToHex(DefaultHash(<<Unwrap(b.namespace),
                                        Unwrap(b.compute_graph_name),
                                        Unwrap(b.compute_fn_name),
                                        Unwrap(b.payload).sha256_hash,
                                        Unwrap(b.payload).path>>)),
             namespace |-> Unwrap(b.namespace),
             compute_graph_name |-> Unwrap(b.compute_graph_name),
             compute_fn_name |-> Unwrap(b.compute_fn_name),
             payload |-> Unwrap(b.payload)])

\* GraphInvocationCtxBuilder::default()
GraphInvocationCtxBuilderDefault ==
    [namespace |-> None, compute_graph_name |-> None, invocation_id |-> None,
     fn_task_analytics |-> None]

\* impl GraphInvocationCtxBuilder { pub fn build(&mut self) -> Result<GraphInvocationCtx> }
GraphInvocationCtxBuilder_build(b) ==
    IF ~IsSome(b.namespace) THEN Err(<<"namespace", "is", "required">>)
    ELSE IF ~IsSome(b.compute_graph_name)
      THEN Err(<<"compute", "graph", "name", "is", "required">>)
    ELSE IF ~IsSome(b.invocation_id)
      THEN Err(<<"ingested", "data", "object", "id", "is", "required">>)
    ELSE Ok([namespace |-> Unwrap(b.namespace),
             compute_graph_name |-> Unwrap(b.compute_graph_name),
             invocation_id |-> Unwrap(b.invocation_id),
             fn_task_analytics |-> <<>>])

\* enum Node { Router(DynamicEdgeRouter), Compute(ComputeFn) }: aux is the
\* router's source_fn or the compute function's fn_name.
Nodes ==
    [kind : {"Router", "Compute"}, name : FnNames, aux : FnNames]

\* The `match self` of create_task: both variants yield their `name`.
Node_name(node) ==
    CASE node.kind = "Router" -> node.name
      [] node.kind = "Compute" -> node.name

\* pub fn create_task(&self, namespace, compute_graph_name, input_id, invocation_id)
Node_create_task(node, namespace, compute_graph_name, input_id, invocation_id, now) ==
    TaskBuilder_build(
        [TaskBuilderDefault EXCEPT !.namespace = Some(namespace),
                                   !.compute_fn_name = Some(Node_name(node)),
                                   !.compute_graph_name = Some(compute_graph_name),
                                   !.invocation_id = Some(invocation_id),
                                   !.input_data_id = Some(input_id)],
        now)

(***************************************************************************)
(* StateChangeId                                                           *)
(***************************************************************************)
\* The width of a StateChangeId key: [u8; 8].
KeyWidth == 8

\* Bits per byte in the model (8 in the source), so that a key's 8 bytes span
\* the whole range of the id type.
ByteBits == 2

\* The number of values of a byte.
ByteBase == 2^ByteBits

\* u64::MAX at the model's byte width: the largest 8-byte value.
IdMax == ByteBase^KeyWidth - 1

RECURSIVE LeBytes(_, _)
\* The k low-order bytes of n, least significant first.
LeBytes(n, k) ==
    IF k = 0 THEN <<>> ELSE <<n % ByteBase>> \o LeBytes(n \div ByteBase, k - 1)

RECURSIVE BeBytes(_, _)
\* The k low-order bytes of n, most significant first.
BeBytes(n, k) ==
    IF k = 0 THEN <<>> ELSE Append(BeBytes(n \div ByteBase, k - 1), n % ByteBase)

RECURSIVE FromBeBytes(_)
\* u64::from_be_bytes
FromBeBytes(bytes) ==
    IF bytes = <<>> THEN 0
    ELSE FromBeBytes(SubSeq(bytes, 1, Len(bytes) - 1)) * ByteBase + bytes[Len(bytes)]

\* pub fn new(id: u64) -> Self
StateChangeId_new(id) == id

\* Variant: the key is the little-endian encoding.
to_key_LittleEndian(id) == LeBytes(id, KeyWidth)

\* pub fn to_key(&self) -> [u8; 8]
to_key(id) == BeBytes(id, KeyWidth)

\* pub fn from_key(key: [u8; 8]) -> Self
from_key(key) == FromBeBytes(key)

\* Id values around the byte boundaries of the key, up to the maximum.
SampleIds ==
    {0, 1, 2, ByteBase - 1, ByteBase, ByteBase + 1, 2 * ByteBase - 1, 2 * ByteBase,
     ByteBase^2 - 1, ByteBase^2, ByteBase^2 + 1, ByteBase^4 - 1, ByteBase^4,
     ByteBase^7, IdMax - 1, IdMax}

(***************************************************************************)
(* SpecAnalytics: pending()/success()/fail() on a default TaskAnalytics    *)
(***************************************************************************)
AnalyticsIdle ==
    /\ ta = TaskAnalyticsDefault
    /\ calls = NoCalls
    /\ unmatched = FALSE
    /\ overflow_checks = FALSE

TaskIdle == tasks = [s \in 1..MaxTasks |-> None]

AllocIdle ==
    /\ executor_id = <<>>
    /\ alloc_tasks = <<>>
    /\ alloc_keys = <<>>
    /\ alloc_parsed = <<>>

ParseIdle ==
    /\ parse_in = <<>>
    /\ parse_out = None

BuilderIdle ==
    /\ builder = [kind |-> "Task", fields |-> TaskBuilderDefault]
    /\ built = None

StateChangeIdle ==
    /\ sc_ids = <<>>
    /\ sc_keys = <<>>
    /\ sc_back = <<>>

InitAnalytics ==
    /\ ta = TaskAnalyticsDefault
    /\ calls = NoCalls
    /\ unmatched = FALSE
    /\ overflow_checks \in BOOLEAN
    /\ panicked = FALSE
    /\ TaskIdle /\ AllocIdle /\ ParseIdle /\ BuilderIdle /\ StateChangeIdle

NextAnalytics ==
    \/ TaskAnalytics_pending
    \/ TaskAnalytics_success
    \/ TaskAnalytics_fail

SpecAnalytics == InitAnalytics /\ [][NextAnalytics]_vars

(***************************************************************************)
(* SpecTask: Tasks are created and finalized                               *)
(***************************************************************************)
\* TaskBuilder values with every setter either called or not.
TaskBuilders ==
    [id : OptionOf({<<48>>}), namespace : OptionOf(Namespaces),
     compute_fn_name : OptionOf(FnNames), compute_graph_name : OptionOf(GraphNames),
     invocation_id : OptionOf(InvocationIds), input_data_id : OptionOf(InputIds),
     outcome : OptionOf({"Success"}), creation_time : OptionOf({10})]

\* A caller fills a TaskBuilder and calls build(); an Err leaves no Task.
BuildTask(s) ==
    /\ tasks[s] = None
    /\ \E b \in TaskBuilders, now \in TaskClockTimes :
         LET r == TaskBuilder_build(b, now)
         IN  /\ r.ok
             /\ tasks' = [tasks EXCEPT ![s] = r.value]
    /\ UNCHANGED <<panicked, notTaskVars>>

\* A caller creates the Task of a graph node.
CreateTask(s) ==
    /\ tasks[s] = None
    /\ \E node \in Nodes, ns \in Namespaces, cg \in GraphNames, input \in InputIds,
          inv \in InvocationIds, now \in TaskClockTimes :
         LET r == Node_create_task(node, ns, cg, input, inv, now)
         IN  /\ r.ok
             /\ tasks' = [tasks EXCEPT ![s] = r.value]
    /\ UNCHANGED <<panicked, notTaskVars>>

\* The caller that finalizes a Task assigns its outcome once: Unknown to
\* Success or Failure (spec 4.4; the assignment is not in this file).
SetOutcome(s) ==
    /\ IsSome(tasks[s])
    /\ Unwrap(tasks[s]).outcome = "Unknown"
    /\ \E o \in {"Success", "Failure"} :
         tasks' = [tasks EXCEPT ![s] = Some([Unwrap(@) EXCEPT !.outcome = o])]
    /\ UNCHANGED <<panicked, notTaskVars>>

InitTask ==
    /\ TaskIdle
    /\ panicked = FALSE
    /\ AnalyticsIdle /\ AllocIdle /\ ParseIdle /\ BuilderIdle /\ StateChangeIdle

NextTask ==
    \/ \E s \in 1..MaxTasks : BuildTask(s)
    \/ \E s \in 1..MaxTasks : CreateTask(s)
    \/ \E s \in 1..MaxTasks : SetOutcome(s)

SpecTask == InitTask /\ [][NextTask]_vars

(***************************************************************************)
(* SpecAlloc: allocation keys of two built Tasks for one executor          *)
(***************************************************************************)
\* The Tasks TaskBuilder::build returns for the input domains and clock values.
BuiltTasks ==
    {Unwrap(TaskBuilder_build(
                [TaskBuilderDefault EXCEPT !.namespace = Some(ns),
                                           !.compute_graph_name = Some(cg),
                                           !.compute_fn_name = Some(fn),
                                           !.input_data_id = Some(input),
                                           !.invocation_id = Some(inv)],
                now).value) :
        ns \in Namespaces, cg \in GraphNames, fn \in FnNames, input \in InputIds,
        inv \in InvocationIds, now \in ClockTimes}

AllocSlots == {1, 2}

\* task.make_allocation_key(&executor_id); the unwrap aborts the process.
MakeAllocationKey(i) ==
    /\ ~panicked
    /\ alloc_keys[i] = None
    /\ IF make_allocation_key_panics(alloc_tasks[i])
         THEN /\ panicked' = TRUE
              /\ UNCHANGED alloc_keys
         ELSE /\ alloc_keys' =
                    [alloc_keys EXCEPT
                        ![i] = Some(make_allocation_key(alloc_tasks[i], executor_id))]
              /\ UNCHANGED panicked
    /\ UNCHANGED <<executor_id, alloc_tasks, alloc_parsed, notAllocVars>>

\* Task::key_from_executor_key(allocation_key.as_bytes())
ParseAllocationKey(i) ==
    /\ ~panicked
    /\ IsSome(alloc_keys[i])
    /\ alloc_parsed[i] = None
    /\ alloc_parsed' =
           [alloc_parsed EXCEPT ![i] = Some(key_from_executor_key(Unwrap(alloc_keys[i])))]
    /\ UNCHANGED <<panicked, executor_id, alloc_tasks, alloc_keys, notAllocVars>>

InitAlloc ==
    /\ executor_id \in ExecutorIds
    /\ alloc_tasks \in [AllocSlots -> BuiltTasks]
    /\ alloc_keys = [i \in AllocSlots |-> None]
    /\ alloc_parsed = [i \in AllocSlots |-> None]
    /\ panicked = FALSE
    /\ AnalyticsIdle /\ TaskIdle /\ ParseIdle /\ BuilderIdle /\ StateChangeIdle

NextAlloc ==
    \/ \E i \in AllocSlots : MakeAllocationKey(i)
    \/ \E i \in AllocSlots : ParseAllocationKey(i)

SpecAlloc == InitAlloc /\ [][NextAlloc]_vars

(***************************************************************************)
(* SpecParse: key_from_executor_key on arbitrary byte slices               *)
(***************************************************************************)
\* The bytes of the slices: '_', '0' and 'a'.
KeyBytes == {Underscore, 48, 97}

ByteStrings == UNION {[1..n -> KeyBytes] : n \in 0..MaxKeyLen}

ParseKey ==
    /\ parse_out = None
    /\ parse_out' = Some(key_from_executor_key(parse_in))
    /\ UNCHANGED <<panicked, parse_in, notParseVars>>

InitParse ==
    /\ parse_in \in ByteStrings
    /\ parse_out = None
    /\ panicked = FALSE
    /\ AnalyticsIdle /\ TaskIdle /\ AllocIdle /\ BuilderIdle /\ StateChangeIdle

NextParse == ParseKey

SpecParse == InitParse /\ [][NextParse]_vars

(***************************************************************************)
(* SpecBuilders: setters and build() of the three hand-written builders    *)
(***************************************************************************)
BuilderKinds == {"Task", "DataObject", "GraphInvocationCtx"}

BuilderDefault(kind) ==
    CASE kind = "Task" -> TaskBuilderDefault
      [] kind = "DataObject" -> DataObjectBuilderDefault
      [] kind = "GraphInvocationCtx" -> GraphInvocationCtxBuilderDefault

\* The values a setter is called with.
SetterValues(field) ==
    CASE field = "namespace" -> Namespaces
      [] field = "compute_graph_name" -> GraphNames
      [] field = "compute_fn_name" -> FnNames
      [] field = "input_data_id" -> InputIds
      [] field = "invocation_id" -> InvocationIds
      [] field = "payload" -> Payloads
      [] field = "id" -> {<<48>>}
      [] field = "outcome" -> {"Success"}
      [] field = "creation_time" -> {10}
      [] field = "fn_task_analytics" -> {<<TaskAnalyticsDefault>>}

\* A derive_builder setter: builder.field(value)
SetField ==
    /\ \E field \in DOMAIN builder.fields :
         \E value \in SetterValues(field) :
            builder' = [builder EXCEPT !.fields[field] = Some(value)]
    /\ UNCHANGED <<panicked, built, notBuilderVars>>

\* builder.build(); for a TaskBuilder SystemTime::now() is read
Build ==
    /\ \E now \in TaskClockTimes :
         built' = Some([kind |-> builder.kind,
                        from |-> builder.fields,
                        result |->
                            CASE builder.kind = "Task" ->
                                   TaskBuilder_build(builder.fields, now)
                              [] builder.kind = "DataObject" ->
                                   DataObjectBuilder_build(builder.fields)
                              [] builder.kind = "GraphInvocationCtx" ->
                                   GraphInvocationCtxBuilder_build(builder.fields)])
    /\ UNCHANGED <<panicked, builder, notBuilderVars>>

InitBuilders ==
    /\ \E kind \in BuilderKinds : builder = [kind |-> kind, fields |-> BuilderDefault(kind)]
    /\ built = None
    /\ panicked = FALSE
    /\ AnalyticsIdle /\ TaskIdle /\ AllocIdle /\ ParseIdle /\ StateChangeIdle

NextBuilders ==
    \/ SetField
    \/ Build

SpecBuilders == InitBuilders /\ [][NextBuilders]_vars

(***************************************************************************)
(* SpecStateChange: to_key and from_key of two StateChangeIds              *)
(***************************************************************************)
IdSlots == {1, 2}

ToKey(i) ==
    /\ sc_keys[i] = None
    /\ sc_keys' = [sc_keys EXCEPT ![i] = Some(to_key(sc_ids[i]))]
    /\ UNCHANGED <<panicked, sc_ids, sc_back, notStateChangeVars>>

FromKey(i) ==
    /\ IsSome(sc_keys[i])
    /\ sc_back[i] = None
    /\ sc_back' = [sc_back EXCEPT ![i] = Some(from_key(Unwrap(sc_keys[i])))]
    /\ UNCHANGED <<panicked, sc_ids, sc_keys, notStateChangeVars>>

InitStateChange ==
    /\ sc_ids \in [IdSlots -> {StateChangeId_new(n) : n \in SampleIds}]
    /\ sc_keys = [i \in IdSlots |-> None]
    /\ sc_back = [i \in IdSlots |-> None]
    /\ panicked = FALSE
    /\ AnalyticsIdle /\ TaskIdle /\ AllocIdle /\ ParseIdle /\ BuilderIdle

NextStateChange ==
    \/ \E i \in IdSlots : ToKey(i)
    \/ \E i \in IdSlots : FromKey(i)

SpecStateChange == InitStateChange /\ [][NextStateChange]_vars

(***************************************************************************)
(* Properties                                                              *)
(***************************************************************************)
\* Byte-lexicographic order of an ordered key-value store: a sorts before b.
LexLess(a, b) ==
    \E i \in 1..Len(b) :
        /\ \A j \in 1..(i - 1) : j <= Len(a) /\ a[j] = b[j]
        /\ (i > Len(a) \/ a[i] < b[i])

CountByte(bytes, b) == Cardinality({i \in 1..Len(bytes) : bytes[i] = b})

RECURSIVE IsSubsequence(_, _)
\* The words of w occur in msg, in order.
IsSubsequence(w, msg) ==
    IF w = <<>> THEN TRUE
    ELSE IF msg = <<>> THEN FALSE
    ELSE IF Head(w) = Head(msg) THEN IsSubsequence(Tail(w), Tail(msg))
    ELSE IsSubsequence(w, Tail(msg))

\* A step that is one call of success() / fail() / any of the three.
SuccessCall == calls'.success = calls.success + 1

FailCall == calls'.fail = calls.fail + 1

AnyCall == calls' # calls

\* C1: after every pending()/success()/fail() call pending_tasks is a valid
\* non-negative count that success()/fail() never raise (no wrap-around), and a
\* success()/fail() call made with pending_tasks = 0 leaves it at 0 while
\* incrementing its terminal counter by 1.
C1_GuardedDecrement ==
    [][/\ AnyCall => ta'.pending_tasks \in 0..CounterMax
       /\ (SuccessCall \/ FailCall) => ta'.pending_tasks <= ta.pending_tasks
       /\ (SuccessCall /\ ta.pending_tasks = 0) =>
              /\ ta'.pending_tasks = 0
              /\ ta'.successful_tasks = ta.successful_tasks + 1
       /\ (FailCall /\ ta.pending_tasks = 0) =>
              /\ ta'.pending_tasks = 0
              /\ ta'.failed_tasks = ta.failed_tasks + 1]_vars

\* C1 (what holds): the same, for the calls whose terminal counter is below
\* the maximum of its integer type.
C1_GuardBelowMaximum ==
    [][/\ AnyCall => ta'.pending_tasks \in 0..CounterMax
       /\ (SuccessCall \/ FailCall) => ta'.pending_tasks <= ta.pending_tasks
       /\ (SuccessCall /\ ta.pending_tasks = 0 /\ ~IncOverflows(ta.successful_tasks)) =>
              /\ ta'.pending_tasks = 0
              /\ ta'.successful_tasks = ta.successful_tasks + 1
       /\ (FailCall /\ ta.pending_tasks = 0 /\ ~IncOverflows(ta.failed_tasks)) =>
              /\ ta'.pending_tasks = 0
              /\ ta'.failed_tasks = ta.failed_tasks + 1]_vars

\* C2: from a default TaskAnalytics, successful_tasks + failed_tasks never
\* exceeds the number of pending() calls made so far.
C2_TerminalAtMostPendingCalls ==
    ta.successful_tasks + ta.failed_tasks <= calls.pending

\* C2 (amended): as long as every success()/fail() call so far was made while
\* pending_tasks > 0, successful_tasks + failed_tasks never exceeds the number
\* of pending() calls made so far.
C2_TerminalAtMostPendingCallsWhenMatched ==
    ~unmatched => ta.successful_tasks + ta.failed_tasks <= calls.pending

C2_Witness ==
    /\ ~unmatched
    /\ ta.successful_tasks >= 1
    /\ ta.failed_tasks >= 1
    /\ ta.successful_tasks + ta.failed_tasks = calls.pending

C4_AllocationKeyRoundTrip ==
    \A i \in DOMAIN alloc_parsed :
        (IsSome(alloc_parsed[i]) /\ CountByte(executor_id, Underscore) = 0) =>
            Unwrap(alloc_parsed[i]) = Ok(Task_key(alloc_tasks[i]))

C4_Witness ==
    \E i \in DOMAIN alloc_parsed :
        /\ IsSome(alloc_parsed[i])
        /\ CountByte(executor_id, Underscore) = 0
        /\ CountByte(alloc_tasks[i].compute_fn_name, Underscore) > 0
        /\ Unwrap(alloc_parsed[i]).ok
        /\ Unwrap(Unwrap(alloc_parsed[i]).value) = Task_key(alloc_tasks[i])

\* C5: key_from_executor_key returns the "invalid executor key" error, and no
\* key, for every input with fewer than two '_' bytes, and Ok only for inputs
\* with at least two.
C5_ParseFailsBelowTwoDelimiters ==
    IsSome(parse_out) =>
        /\ CountByte(parse_in, Underscore) < 2 =>
               Unwrap(parse_out) = Err(InvalidExecutorKey)
        /\ CountByte(parse_in, Underscore) >= 2 => Unwrap(parse_out).ok
        /\ ~Unwrap(parse_out).ok => Unwrap(parse_out).value = None

C5_Witness ==
    /\ IsSome(parse_out)
    /\ CountByte(parse_in, Underscore) = 1
    /\ Len(parse_in) = MaxKeyLen
    /\ Unwrap(parse_out) = Err(InvalidExecutorKey)

\* The attributes a builder's build() requires.
MandatoryFields(kind) ==
    CASE kind = "Task" ->
           {"namespace", "compute_graph_name", "compute_fn_name", "input_data_id",
            "invocation_id"}
      [] kind = "DataObject" ->
           {"namespace", "compute_graph_name", "compute_fn_name", "payload"}
      [] kind = "GraphInvocationCtx" ->
           {"namespace", "compute_graph_name", "invocation_id"}

\* The words of a field's identifier.
FieldWords(field) ==
    CASE field = "namespace" -> <<"namespace">>
      [] field = "compute_graph_name" -> <<"compute", "graph", "name">>
      [] field = "compute_fn_name" -> <<"compute", "fn", "name">>
      [] field = "input_data_id" -> <<"input", "data", "id">>
      [] field = "invocation_id" -> <<"invocation", "id">>
      [] field = "payload" -> <<"payload">>

\* An error message names a field when the words of the field's identifier occur
\* in it, in order.
NamesField(message, field) == IsSubsequence(FieldWords(field), message)

\* C6: build() returns Ok exactly when every mandatory attribute was set, with
\* the attributes as set; with an attribute unset it returns an error and no
\* entity, and the error names a missing field (the missing field, when one is
\* unset).
C6_BuilderCompleteness ==
    IsSome(built) =>
        LET b == Unwrap(built)
            missing == {f \in MandatoryFields(b.kind) : b.from[f] = None}
        IN  /\ b.result.ok <=> missing = {}
            /\ missing # {} =>
                   /\ b.result.value = None
                   /\ \E f \in missing : NamesField(b.result.error, f)
            /\ Cardinality(missing) = 1 =>
                   \A f \in missing : NamesField(b.result.error, f)
            /\ b.result.ok =>
                   \A f \in MandatoryFields(b.kind) :
                       Unwrap(b.result.value)[f] = Unwrap(b.from[f])

\* C6 (what holds): the same, except that the error for an unset invocation_id
\* names no field of the builder.
C6_CompletenessExceptInvocationId ==
    IsSome(built) =>
        LET b == Unwrap(built)
            missing == {f \in MandatoryFields(b.kind) : b.from[f] = None}
        IN  /\ b.result.ok <=> missing = {}
            /\ missing # {} => b.result.value = None
            /\ (missing # {} /\ missing # {"invocation_id"}) =>
                   \E f \in missing : NamesField(b.result.error, f)
            /\ (Cardinality(missing) = 1 /\ missing # {"invocation_id"}) =>
                   \A f \in missing : NamesField(b.result.error, f)
            /\ b.result.ok =>
                   \A f \in MandatoryFields(b.kind) :
                       Unwrap(b.result.value)[f] = Unwrap(b.from[f])

\* C7: for one executor id, the allocation key of a Task created earlier (at or
\* after the Unix epoch) sorts before the allocation key of a Task created later.
C7_AllocationKeysTimeOrdered ==
    \A i, j \in DOMAIN alloc_keys :
        ( /\ IsSome(alloc_keys[i]) /\ IsSome(alloc_keys[j])
          /\ 0 <= alloc_tasks[i].creation_time
          /\ alloc_tasks[i].creation_time < alloc_tasks[j].creation_time ) =>
            LexLess(Unwrap(alloc_keys[i]), Unwrap(alloc_keys[j]))

\* C7 (what holds): the order holds between creation times whose nanosecond
\* counts have the same number of decimal digits.
C7_TimeOrderedAtEqualWidth ==
    \A i, j \in DOMAIN alloc_keys :
        ( /\ IsSome(alloc_keys[i]) /\ IsSome(alloc_keys[j])
          /\ 0 <= alloc_tasks[i].creation_time
          /\ alloc_tasks[i].creation_time < alloc_tasks[j].creation_time
          /\ Len(ToDecimal(alloc_tasks[i].creation_time))
               = Len(ToDecimal(alloc_tasks[j].creation_time)) ) =>
            LexLess(Unwrap(alloc_keys[i]), Unwrap(alloc_keys[j]))

SameTaskTuple(t1, t2) ==
    /\ t1.namespace = t2.namespace
    /\ t1.compute_graph_name = t2.compute_graph_name
    /\ t1.compute_fn_name = t2.compute_fn_name
    /\ t1.input_data_id = t2.input_data_id
    /\ t1.invocation_id = t2.invocation_id

\* C8: two Tasks created by TaskBuilder::build or Node::create_task from equal
\* (namespace, compute_graph_name, compute_fn_name, input_data_id, invocation_id)
\* have the same id and the same key(), whatever their creation times.
C8_TaskIdDeterminism ==
    \A s1, s2 \in 1..MaxTasks :
        ( /\ IsSome(tasks[s1]) /\ IsSome(tasks[s2])
          /\ SameTaskTuple(Unwrap(tasks[s1]), Unwrap(tasks[s2])) ) =>
            /\ Unwrap(tasks[s1]).id = Unwrap(tasks[s2]).id
            /\ Task_key(Unwrap(tasks[s1])) = Task_key(Unwrap(tasks[s2]))

C8_Witness ==
    \E s1, s2 \in 1..MaxTasks :
        /\ IsSome(tasks[s1]) /\ IsSome(tasks[s2])
        /\ SameTaskTuple(Unwrap(tasks[s1]), Unwrap(tasks[s2]))
        /\ Unwrap(tasks[s1]).creation_time < Unwrap(tasks[s2]).creation_time
        /\ Unwrap(tasks[s1]).id = Unwrap(tasks[s2]).id

\* C9: a StateChangeId key is 8 bytes; ids compare as their keys compare
\* byte-lexicographically; and from_key(to_key(id)) = id.
C9_KeyOrderAndRoundTrip ==
    /\ \A i \in DOMAIN sc_keys :
          IsSome(sc_keys[i]) =>
              /\ Len(Unwrap(sc_keys[i])) = 8
              /\ \A k \in 1..8 : Unwrap(sc_keys[i])[k] \in 0..(ByteBase - 1)
    /\ \A i, j \in DOMAIN sc_keys :
          (IsSome(sc_keys[i]) /\ IsSome(sc_keys[j])) =>
              (sc_ids[i] < sc_ids[j]
                  <=> LexLess(Unwrap(sc_keys[i]), Unwrap(sc_keys[j])))
    /\ \A i \in DOMAIN sc_back :
          IsSome(sc_back[i]) => Unwrap(sc_back[i]) = sc_ids[i]

C9_Witness ==
    \E i, j \in DOMAIN sc_keys :
        /\ IsSome(sc_back[i]) /\ IsSome(sc_back[j])
        /\ sc_ids[i] < sc_ids[j]
        /\ sc_ids[i] % ByteBase > sc_ids[j] % ByteBase
        /\ LexLess(Unwrap(sc_keys[i]), Unwrap(sc_keys[j]))
        /\ Unwrap(sc_back[j]) = sc_ids[j]

\* C10: no operation aborts the process: every call returns a value or an error.
C10_NothingPanics == ~panicked

====
